---- MODULE Spec2Model ----
(***************************************************************************)
(* Side-pot settlement of src/sidepot.py: Pot.distribute,                  *)
(* SidePotCalculator._allocate_pot and SidePotCalculator.calculate.        *)
(*                                                                         *)
(* Python lists indexed by player or by run are functions over 0..n-1, so  *)
(* that indices read as in the source.  self.pots and the sorted_players   *)
(* list are sequences (1-based): sorted_players[0][1] of the source is     *)
(* sorted_players[1][2] here.  A tier of a run result is a Python set; it  *)
(* is modelled as the sequence of its members in the order in which the    *)
(* set yields them when iterated (line 70), an order the language leaves   *)
(* open, so every order is an input.                                       *)
(***************************************************************************)
EXTENDS Integers, Sequences, FiniteSets

VARIABLES
    num_players,       \* SidePotCalculator.num_players
    money_in_pot,      \* SidePotCalculator.money_in_pot
    player_stacks,     \* SidePotCalculator.player_stacks
    num_runs,          \* SidePotCalculator.num_runs
    run_results,       \* SidePotCalculator.run_results / argument of Pot.distribute
    pots,              \* SidePotCalculator.pots
    remaining_stacks,  \* calculate: value returned by _allocate_pot
    resultant_stack,   \* calculate: the list it returns
    pc,                \* position of the caller
    split_v,           \* cascading division: chips to split
    split_k,           \* cascading division: number of recipients
    split_runs,        \* shares computed by the run split (lines 55-60)
    split_chop         \* shares computed by the chop (lines 72-76)

vars == <<num_players, money_in_pot, player_stacks, num_runs, run_results,
          pots, remaining_stacks, resultant_stack, pc,
          split_v, split_k, split_runs, split_chop>>

----------------------------------------------------------------------------
\* Bounds of the model

MaxPlayers == 3
MaxStack == 3
MaxMoney == 2
MaxRuns == 2
MaxPotAmount == 7
MaxAllocPlayers == 5
MaxChips == 12
MaxShares == 4
MaxCalls == 2

----------------------------------------------------------------------------
\* Helpers

RECURSIVE SumFn(_, _)
SumFn(f, S) ==
    IF S = {} THEN 0
    ELSE LET x == CHOOSE y \in S : TRUE IN f[x] + SumFn(f, S \ {x})

RECURSIVE SumSeq(_)
SumSeq(s) == IF s = <<>> THEN 0 ELSE Head(s) + SumSeq(Tail(s))

SeqRange(s) == {s[k] : k \in 1..Len(s)}

PlayerIds(n) == 0..(n - 1)

\* All iteration orders of a set of n player indices
Orders(n) == {p \in [1..n -> PlayerIds(n)] : \A a, b \in 1..n : a # b => p[a] # p[b]}

\* Tier t of the ranking that cuts the order p after the positions in cuts
TierOf(p, cuts, t) ==
    LET idxs == {i \in 1..Len(p) : Cardinality({c \in cuts : c < i}) = t}
        lo == CHOOSE i \in idxs : \A j \in idxs : i <= j
        hi == CHOOSE i \in idxs : \A j \in idxs : i >= j
    IN SubSeq(p, lo, hi)

\* The run results _collect_data accepts for n players: tiers 0..T-1, every
\* player in exactly one tier, no tier empty (lines 98-121)
Rankings(n) ==
    {[t \in 0..Cardinality(cuts) |-> TierOf(p, cuts, t)] :
        p \in Orders(n), cuts \in SUBSET (1..(n - 1))}

----------------------------------------------------------------------------
\* class Pot

Pot(amount, n_players, n_runs, players_eligible, is_sidepot) ==
    [amount |-> amount,
     num_players |-> n_players,
     num_runs |-> n_runs,
     players_eligible |-> players_eligible,
     is_sidepot |-> is_sidepot,
     entitled_chips |-> [i \in PlayerIds(n_players) |-> 0],
     entitled_chips_per_run |->
        [r \in 0..(n_runs - 1) |-> [i \in PlayerIds(n_players) |-> 0]]]

\* lines 55-60: chips_each_run[i] = amount // (num_runs - i); amount -= that
RECURSIVE RunSplitLoop(_, _, _, _)
RunSplitLoop(amount, n_runs, i, chips_each_run) ==
    IF i >= n_runs THEN chips_each_run
    ELSE RunSplitLoop(amount - (amount \div (n_runs - i)), n_runs, i + 1,
                      [chips_each_run EXCEPT ![i] = amount \div (n_runs - i)])

\* Variants of the run split: every run gets amount // num_runs; the divisor
\* is not lowered as the runs go by; the share is rounded up instead of down
ChipsEachRunEven(amount, n_runs) ==
    [i \in 0..(n_runs - 1) |-> amount \div n_runs]

RECURSIVE RunSplitStaleLoop(_, _, _, _)
RunSplitStaleLoop(amount, n_runs, i, chips_each_run) ==
    IF i >= n_runs THEN chips_each_run
    ELSE RunSplitStaleLoop(amount - (amount \div n_runs), n_runs, i + 1,
                           [chips_each_run EXCEPT ![i] = amount \div n_runs])

ChipsEachRunStale(amount, n_runs) ==
    RunSplitStaleLoop(amount, n_runs, 0, [i \in 0..(n_runs - 1) |-> 0])

RECURSIVE RunSplitFrontLoop(_, _, _, _)
RunSplitFrontLoop(amount, n_runs, i, chips_each_run) ==
    IF i >= n_runs THEN chips_each_run
    ELSE LET share == (amount + (n_runs - i) - 1) \div (n_runs - i)
         IN RunSplitFrontLoop(amount - share, n_runs, i + 1,
                              [chips_each_run EXCEPT ![i] = share])

ChipsEachRunFront(amount, n_runs) ==
    RunSplitFrontLoop(amount, n_runs, 0, [i \in 0..(n_runs - 1) |-> 0])

ChipsEachRun(amount, n_runs) ==
    RunSplitLoop(amount, n_runs, 0, [i \in 0..(n_runs - 1) |-> 0])

\* Variants of the chop: the divisor is not lowered as the winners go by; the
\* part is rounded up instead of down
RECURSIVE ChopLoopEven(_, _, _, _)
ChopLoopEven(entitled_ids, j, chips, awards) ==
    IF j >= Len(entitled_ids) THEN [chips |-> chips, awards |-> awards]
    ELSE LET id == entitled_ids[j + 1]
             part == chips \div Len(entitled_ids)
         IN ChopLoopEven(entitled_ids, j + 1, chips - part,
                         [awards EXCEPT ![id] = @ + part])

RECURSIVE ChopLoopFront(_, _, _, _)
ChopLoopFront(entitled_ids, j, chips, awards) ==
    IF j >= Len(entitled_ids) THEN [chips |-> chips, awards |-> awards]
    ELSE LET id == entitled_ids[j + 1]
             left == Len(entitled_ids) - j
             part == (chips + left - 1) \div left
         IN ChopLoopFront(entitled_ids, j + 1, chips - part,
                          [awards EXCEPT ![id] = @ + part])

\* lines 72-76: the j-th entitled id gets chips // (len(entitled_ids) - j),
\* which is then taken off chips.  awards[id] is what the run has added to
\* entitled_chips[id] and to entitled_chips_per_run[run_idx][id].
RECURSIVE ChopLoop(_, _, _, _)
ChopLoop(entitled_ids, j, chips, awards) ==
    IF j >= Len(entitled_ids) THEN [chips |-> chips, awards |-> awards]
    ELSE LET id == entitled_ids[j + 1]
             part == chips \div (Len(entitled_ids) - j)
         IN ChopLoop(entitled_ids, j + 1, chips - part,
                     [awards EXCEPT ![id] = @ + part])

\* Variant of line 70 without the eligibility test
EntitledIdsAll(tier, players_eligible) == tier

\* line 70: the members of the tier that are eligible, in iteration order
EntitledIds(tier, players_eligible) ==
    LET IsEligible(id) == id \in players_eligible
    IN SelectSeq(tier, IsEligible)

\* lines 67-76: the scan of the tiers of one run
RECURSIVE TierLoop(_, _, _, _, _)
TierLoop(run_result, players_eligible, i, chips, awards) ==
    IF i >= Cardinality(DOMAIN run_result) THEN awards
    ELSE IF chips = 0 THEN awards
    ELSE LET entitled_ids == EntitledIds(run_result[i], players_eligible)
         IN IF entitled_ids # <<>>
            THEN LET after == ChopLoop(entitled_ids, 0, chips, awards)
                 IN TierLoop(run_result, players_eligible, i + 1,
                             after.chips, after.awards)
            ELSE TierLoop(run_result, players_eligible, i + 1, chips, awards)

\* What one run adds to each player's entitlement in this pot
RunAwards(pot, run_result, chips) ==
    TierLoop(run_result, pot.players_eligible, 0, chips,
             [id \in PlayerIds(pot.num_players) |-> 0])

\* Pot.distribute (lines 41-78): the pot after the call
Distribute(pot, results) ==
    LET n_runs == Cardinality(DOMAIN results)
        chips_each_run == ChipsEachRun(pot.amount, n_runs)
        awards == [run_idx \in 0..(n_runs - 1) |->
                      RunAwards(pot, results[run_idx], chips_each_run[run_idx])]
    IN [pot EXCEPT
          !.entitled_chips =
              [id \in PlayerIds(pot.num_players) |->
                  pot.entitled_chips[id]
                    + SumFn([r \in 0..(n_runs - 1) |-> awards[r][id]],
                            0..(n_runs - 1))],
          !.entitled_chips_per_run =
              [run_idx \in 0..(n_runs - 1) |->
                  [id \in PlayerIds(pot.num_players) |->
                      pot.entitled_chips_per_run[run_idx][id]
                        + awards[run_idx][id]]]]

----------------------------------------------------------------------------
\* class SidePotCalculator

\* line 170: sorted(enumerate(player_stacks), key=stack); the sort is stable
RECURSIVE SortedByStack(_, _)
SortedByStack(stacks, todo) ==
    IF todo = {} THEN <<>>
    ELSE LET m == CHOOSE i \in todo : \A j \in todo :
                      \/ stacks[i] < stacks[j]
                      \/ (stacks[i] = stacks[j] /\ i <= j)
         IN <<<<m, stacks[m]>>>> \o SortedByStack(stacks, todo \ {m})

SortedPlayers(stacks, n_players) == SortedByStack(stacks, PlayerIds(n_players))

\* Variant of lines 179 and 189 that drops the emptied stacks but leaves the
\* others as they were
DeductShortestKept(sorted_players) ==
    LET shortest == sorted_players[1][2]
        HasChips(element) == element[2] - shortest > 0
    IN SelectSeq(sorted_players, HasChips)

\* lines 179 and 189: take the shortest stack off every stack, drop the empty
DeductShortest(sorted_players) ==
    LET shortest == sorted_players[1][2]
        deducted == [k \in 1..Len(sorted_players) |->
                        <<sorted_players[k][1], sorted_players[k][2] - shortest>>]
        HasChips(element) == element[2] > 0
    IN SelectSeq(deducted, HasChips)

\* lines 182-190: the side pot loop
RECURSIVE SidePotLoop(_, _, _, _)
SidePotLoop(sorted_players, n_players, n_runs, made) ==
    IF Len(sorted_players) > 1
    THEN SidePotLoop(DeductShortest(sorted_players), n_players, n_runs,
             Append(made,
                 Pot(sorted_players[1][2] * Len(sorted_players),
                     n_players, n_runs,
                     {sorted_players[k][1] : k \in 1..Len(sorted_players)},
                     TRUE)))
    ELSE [pots |-> made, remaining |-> sorted_players]

\* Variant of lines 173-177 that counts only the players with chips, and makes
\* only them eligible
MainPotOfFunded(sorted_players, money, n_players, n_runs) ==
    LET funded == {k \in 1..Len(sorted_players) : sorted_players[k][2] > 0}
        shortest == IF funded = {} THEN 0
                    ELSE sorted_players[CHOOSE k \in funded :
                                            \A m \in funded : k <= m][2]
    IN Pot(money + shortest * Cardinality(funded), n_players, n_runs,
           {sorted_players[k][1] : k \in funded}, FALSE)

\* lines 173-177: the main pot
MainPot(sorted_players, money, n_players, n_runs) ==
    Pot(money + sorted_players[1][2] * n_players,
        n_players, n_runs, PlayerIds(n_players), FALSE)

\* Variant of _allocate_pot without line 179
AllocatePotNoDeduct(old_pots, stacks, money, n_players, n_runs) ==
    LET sorted_players == SortedPlayers(stacks, n_players)
    IN SidePotLoop(sorted_players, n_players, n_runs,
                   Append(old_pots,
                          MainPot(sorted_players, money, n_players, n_runs)))

\* _allocate_pot (lines 161-190): self.pots after the call and the value returned
AllocatePot(old_pots, stacks, money, n_players, n_runs) ==
    LET sorted_players == SortedPlayers(stacks, n_players)
    IN SidePotLoop(DeductShortest(sorted_players), n_players, n_runs,
                   Append(old_pots,
                          MainPot(sorted_players, money, n_players, n_runs)))

\* Variant of lines 216-217 that leaves the returned stacks out
AddRemainingNone(stack, remaining) == stack

\* lines 216-217: resultant_stack[element[0]] += element[1]
RECURSIVE AddRemaining(_, _)
AddRemaining(stack, remaining) ==
    IF remaining = <<>> THEN stack
    ELSE AddRemaining([stack EXCEPT ![Head(remaining)[1]] = @ + Head(remaining)[2]],
                      Tail(remaining))

\* lines 220-223: distribute each pot of self.pots in turn and add what
\* distribute returns (the pot's entitled_chips) to resultant_stack
RECURSIVE DistributeLoop(_, _, _, _)
DistributeLoop(all_pots, k, results, stack) ==
    IF k > Len(all_pots) THEN [pots |-> all_pots, stack |-> stack]
    ELSE LET pot == Distribute(all_pots[k], results)
         IN DistributeLoop([all_pots EXCEPT ![k] = pot], k + 1, results,
                [player_id \in DOMAIN stack |->
                    stack[player_id] + pot.entitled_chips[player_id]])

----------------------------------------------------------------------------
\* The settlement: a calculator is constructed with its inputs, calculate runs

SplitIdle ==
    /\ split_v = 0
    /\ split_k = 1
    /\ split_runs = <<>>
    /\ split_chop = <<>>

Init ==
    /\ num_players \in 2..MaxPlayers
    /\ money_in_pot \in 0..MaxMoney
    /\ player_stacks \in [PlayerIds(num_players) -> 0..MaxStack]
    /\ num_runs \in 1..MaxRuns
    /\ run_results \in [0..(num_runs - 1) -> Rankings(num_players)]
    /\ pots = <<>>
    /\ remaining_stacks = <<>>
    /\ resultant_stack = <<>>
    /\ pc = "constructed"
    /\ SplitIdle

\* calculate (lines 205-224)
Calculate ==
    /\ pc = "constructed"
    /\ LET allocated == AllocatePot(pots, player_stacks, money_in_pot,
                                    num_players, num_runs)
           start == AddRemaining([i \in PlayerIds(num_players) |-> 0],
                                 allocated.remaining)
           done == DistributeLoop(allocated.pots, 1, run_results, start)
       IN /\ remaining_stacks' = allocated.remaining
          /\ pots' = done.pots
          /\ resultant_stack' = done.stack
    /\ pc' = "returned"
    /\ UNCHANGED <<num_players, money_in_pot, player_stacks, num_runs,
                   run_results, split_v, split_k, split_runs, split_chop>>

Next == Calculate

Spec == Init /\ [][Next]_vars

----------------------------------------------------------------------------
\* The allocator on its own: _allocate_pot is called once on a calculator
\* whose fields are set (the run results play no part in it)

InitAlloc ==
    /\ num_players \in 2..MaxAllocPlayers
    /\ money_in_pot \in 0..MaxMoney
    /\ player_stacks \in [PlayerIds(num_players) -> 0..MaxStack]
    /\ num_runs \in 1..MaxRuns
    /\ run_results = <<>>
    /\ pots = <<>>
    /\ remaining_stacks = <<>>
    /\ resultant_stack = <<>>
    /\ pc = "constructed"
    /\ SplitIdle

\* self._allocate_pot() (lines 161-190)
AllocatePotCall ==
    /\ pc = "constructed"
    /\ LET allocated == AllocatePot(pots, player_stacks, money_in_pot,
                                    num_players, num_runs)
       IN /\ pots' = allocated.pots
          /\ remaining_stacks' = allocated.remaining
    /\ pc' = "allocated"
    /\ UNCHANGED <<num_players, money_in_pot, player_stacks, num_runs,
                   run_results, resultant_stack,
                   split_v, split_k, split_runs, split_chop>>

NextAlloc == AllocatePotCall

SpecAlloc == InitAlloc /\ [][NextAlloc]_vars

----------------------------------------------------------------------------
\* One pot on its own: a Pot is built (lines 4-11, is_sidepot left at its
\* default) with any amount and any non-empty eligible set, and
\* distribute is called on it once with the run results

NoPlayers == [i \in PlayerIds(num_players) |-> 0]

InitPot ==
    /\ num_players \in 2..MaxPlayers
    /\ num_runs \in 1..MaxRuns
    /\ run_results \in [0..(num_runs - 1) -> Rankings(num_players)]
    /\ pots \in {<<Pot(amount, num_players, num_runs, eligible, FALSE)>> :
                    amount \in 0..MaxPotAmount,
                    eligible \in (SUBSET PlayerIds(num_players)) \ {{}}}
    /\ money_in_pot = 0
    /\ player_stacks = NoPlayers
    /\ remaining_stacks = <<>>
    /\ resultant_stack = <<>>
    /\ pc = "pot_built"
    /\ SplitIdle

\* pot.distribute(run_results) (lines 41-78)
PotDistribute ==
    /\ pc = "pot_built"
    /\ pots' = <<Distribute(pots[1], run_results)>>
    /\ pc' = "pot_distributed"
    /\ UNCHANGED <<num_players, money_in_pot, player_stacks, num_runs,
                   run_results, remaining_stacks, resultant_stack,
                   split_v, split_k, split_runs, split_chop>>

NextPot == PotDistribute

SpecPot == InitPot /\ [][NextPot]_vars

----------------------------------------------------------------------------
\* The cascading division on its own: split_v chips among split_k
\* recipients, by the loop of lines 55-60 and by the loop of lines 72-76

InitSplit ==
    /\ split_v \in 0..MaxChips
    /\ split_k \in 1..MaxShares
    /\ split_runs = <<>>
    /\ split_chop = <<>>
    /\ num_players = 2
    /\ num_runs = 1
    /\ money_in_pot = 0
    /\ player_stacks = NoPlayers
    /\ run_results = <<>>
    /\ pots = <<>>
    /\ remaining_stacks = <<>>
    /\ resultant_stack = <<>>
    /\ pc = "split"

SplitAcrossRuns ==
    /\ pc = "split"
    /\ split_runs = <<>>
    /\ split_runs' = ChipsEachRun(split_v, split_k)
    /\ UNCHANGED <<num_players, money_in_pot, player_stacks, num_runs,
                   run_results, pots, remaining_stacks, resultant_stack, pc,
                   split_v, split_k, split_chop>>

\* the shares in the order in which the winners are processed
ChopAmongWinners ==
    /\ pc = "split"
    /\ split_chop = <<>>
    /\ \E entitled_ids \in Orders(split_k) :
          LET after == ChopLoop(entitled_ids, 0, split_v,
                                [id \in PlayerIds(split_k) |-> 0])
          IN split_chop' = [j \in 0..(split_k - 1) |->
                                after.awards[entitled_ids[j + 1]]]
    /\ UNCHANGED <<num_players, money_in_pot, player_stacks, num_runs,
                   run_results, pots, remaining_stacks, resultant_stack, pc,
                   split_v, split_k, split_runs>>

NextSplit == SplitAcrossRuns \/ ChopAmongWinners

SpecSplit == InitSplit /\ [][NextSplit]_vars

----------------------------------------------------------------------------
\* The settlement on run results the caller has not validated: distribute and
\* calculate take any list of tier dictionaries (lines 41-53, 93), so a run
\* result may leave players out, down to no tier at all

\* All iteration orders of the set of players S
OrdersOf(S) ==
    {p \in [1..Cardinality(S) -> S] :
        \A a, b \in 1..Cardinality(S) : a # b => p[a] # p[b]}

\* The run results over n players whose tiers are non-empty and disjoint
AnyRankings(n) ==
    {<<>>} \cup
    UNION {{[t \in 0..Cardinality(cuts) |-> TierOf(p, cuts, t)] :
                p \in OrdersOf(S), cuts \in SUBSET (1..(Cardinality(S) - 1))} :
           S \in (SUBSET PlayerIds(n)) \ {{}}}

InitAnyRanking ==
    /\ num_players \in 2..MaxPlayers
    /\ money_in_pot \in 0..MaxMoney
    /\ player_stacks \in [PlayerIds(num_players) -> 0..MaxStack]
    /\ num_runs \in 1..MaxRuns
    /\ run_results \in [0..(num_runs - 1) -> AnyRankings(num_players)]
    /\ pots = <<>>
    /\ remaining_stacks = <<>>
    /\ resultant_stack = <<>>
    /\ pc = "constructed"
    /\ SplitIdle

NextAnyRanking == Calculate

SpecAnyRanking == InitAnyRanking /\ [][NextAnyRanking]_vars

----------------------------------------------------------------------------
\* calculate called again on the same calculator: self.pots is set to [] by
\* __init__ alone (line 82), so a later call appends its pots to those of the
\* earlier calls (lines 173, 184) and distributes every pot of the list
\* (line 220), the earlier ones on top of what they already hold

\* The calls made so far: each call appends one main pot
Calls == Cardinality({k \in 1..Len(pots) : ~pots[k].is_sidepot})

\* calculate (lines 205-224), after an earlier call has returned
CalculateAgain ==
    /\ pc = "returned"
    /\ Calls < MaxCalls
    /\ LET allocated == AllocatePot(pots, player_stacks, money_in_pot,
                                    num_players, num_runs)
           start == AddRemaining([i \in PlayerIds(num_players) |-> 0],
                                 allocated.remaining)
           done == DistributeLoop(allocated.pots, 1, run_results, start)
       IN /\ remaining_stacks' = allocated.remaining
          /\ pots' = done.pots
          /\ resultant_stack' = done.stack
    /\ pc' = "returned"
    /\ UNCHANGED <<num_players, money_in_pot, player_stacks, num_runs,
                   run_results, split_v, split_k, split_runs, split_chop>>

NextRepeat == Calculate \/ CalculateAgain

SpecRepeat == Init /\ [][NextRepeat]_vars

----------------------------------------------------------------------------
\* Properties

Sum(f) == SumFn(f, DOMAIN f)

\* The first tier of run_result that holds a player of eligible
DecidingTier(run_result, eligible) ==
    CHOOSE t \in DOMAIN run_result :
        /\ SeqRange(run_result[t]) \cap eligible # {}
        /\ \A u \in DOMAIN run_result :
              u < t => SeqRange(run_result[u]) \cap eligible = {}

\* The eligible players of that tier, in the order they are processed
Winners(run_result, eligible) ==
    EntitledIds(run_result[DecidingTier(run_result, eligible)], eligible)

PotDistributed == pc = "pot_distributed"

\* C1: the final stacks calculate returns sum to the money already in the
\* pot plus the sum of the initial stacks.
Conservation ==
    pc = "returned" =>
        Sum(resultant_stack) = money_in_pot + Sum(player_stacks)

ConservationWitness ==
    /\ pc = "returned"
    /\ Len(pots) = 2
    /\ remaining_stacks # <<>>
    /\ money_in_pot = 1
    /\ num_runs = 2
    /\ \E r \in DOMAIN run_results : Cardinality(DOMAIN run_results[r]) = 1

\* C2: after distribute on a freshly built pot, the total entitlements of
\* the pot sum to the pot's amount.
PotConservation ==
    PotDistributed => Sum(pots[1].entitled_chips) = pots[1].amount

PotConservationWitness ==
    /\ PotDistributed
    /\ pots[1].amount = 7
    /\ num_runs = 2
    /\ Cardinality(pots[1].players_eligible) = 2
    /\ \A r \in DOMAIN run_results :
          Len(Winners(run_results[r], pots[1].players_eligible)) = 2

\* C3: a player outside the pot's eligible set is entitled to nothing from
\* the pot, in every run and in total.
IneligibleGetNothing ==
    PotDistributed =>
        \A id \in PlayerIds(num_players) \ pots[1].players_eligible :
            /\ pots[1].entitled_chips[id] = 0
            /\ \A r \in DOMAIN run_results :
                  pots[1].entitled_chips_per_run[r][id] = 0

\* the best hand of every run belongs to a player who is not eligible
IneligibleGetNothingWitness ==
    /\ PotDistributed
    /\ pots[1].amount > 1
    /\ num_runs = 2
    /\ \E id \in PlayerIds(num_players) \ pots[1].players_eligible :
          \A r \in DOMAIN run_results : id \in SeqRange(run_results[r][0])

RunsSplit == split_runs # <<>>

Chopped == split_chop # <<>>

\* C4: the shares of the runs sum to the amount and any indivisible remainder
\* falls on the later runs: the shares never decrease with the run index
\* (10 chips over 3 runs gives 3, 3, 4).
RemainderOnLaterRuns ==
    RunsSplit =>
        /\ Sum(split_runs) = split_v
        /\ \A i, j \in DOMAIN split_runs : i < j => split_runs[i] <= split_runs[j]
        /\ (split_v = 10 /\ split_k = 3) =>
              split_runs = [i \in 0..2 |-> IF i = 2 THEN 4 ELSE 3]

RemainderOnLaterRunsWitness ==
    /\ RunsSplit
    /\ split_v = 10
    /\ split_k = 3
    /\ split_runs[0] < split_runs[2]

\* C4 as first stated: the shares sum to the amount and never increase with
\* the run index (10 chips over 3 runs gives 4, 3, 3).
RemainderOnEarlierRuns ==
    RunsSplit =>
        /\ Sum(split_runs) = split_v
        /\ \A i, j \in DOMAIN split_runs : i < j => split_runs[i] >= split_runs[j]
        /\ (split_v = 10 /\ split_k = 3) =>
              split_runs = [i \in 0..2 |-> IF i = 0 THEN 4 ELSE 3]

\* C6: the shares the cascading division makes of V chips for K recipients
\* differ by at most 1, in the split across runs and in the chop among
\* winners, and both give the same sequence of shares for the same (V, K),
\* whatever the winners and the order they are processed in.
SharesWithinOne ==
    /\ RunsSplit =>
          \A i, j \in DOMAIN split_runs : split_runs[i] - split_runs[j] <= 1
    /\ Chopped =>
          \A i, j \in DOMAIN split_chop : split_chop[i] - split_chop[j] <= 1
    /\ (RunsSplit /\ Chopped) => split_runs = split_chop

SharesWithinOneWitness ==
    /\ RunsSplit
    /\ Chopped
    /\ split_v = 11
    /\ split_k = 4
    /\ \E i, j \in DOMAIN split_chop : split_chop[i] # split_chop[j]

\* What run r of the pot gave to each player
GivenInRun(r) == pots[1].entitled_chips_per_run[r]

WinnersOfRun(r) == Winners(run_results[r], pots[1].players_eligible)

FirstEligibleTierTakesAll ==
    PotDistributed =>
        \A r \in DOMAIN run_results :
            LET d == DecidingTier(run_results[r], pots[1].players_eligible)
                given == GivenInRun(r)
            IN /\ SumFn(given, SeqRange(WinnersOfRun(r)))
                    = ChipsEachRun(pots[1].amount, num_runs)[r]
               /\ \A t \in DOMAIN run_results[r] :
                     t # d => \A id \in SeqRange(run_results[r][t]) : given[id] = 0

\* a run whose strongest tier holds no eligible player, with chips to give,
\* and with an eligible player in a tier weaker than the deciding one
FirstEligibleTierTakesAllWitness ==
    /\ PotDistributed
    /\ \E r \in DOMAIN run_results :
          LET d == DecidingTier(run_results[r], pots[1].players_eligible)
          IN /\ d > 0
             /\ Sum(GivenInRun(r)) = 3
             /\ \E t \in DOMAIN run_results[r] :
                   /\ t > d
                   /\ SeqRange(run_results[r][t]) \cap pots[1].players_eligible # {}

Allocated == pc = "allocated"

ShortestStack ==
    CHOOSE v \in SeqRange([i \in 1..num_players |-> player_stacks[i - 1]]) :
        \A i \in PlayerIds(num_players) : v <= player_stacks[i]

\* The players with a positive stack
Funded == {i \in PlayerIds(num_players) : player_stacks[i] > 0}

ShortestFundedStack ==
    CHOOSE v \in {player_stacks[i] : i \in Funded} :
        \A i \in Funded : v <= player_stacks[i]

\* C7: in the pot list _allocate_pot produces the first pot is the main pot
\* and every later pot is a side pot whose eligible set is a strict subset of
\* the eligible set of the pot before it.
SidePotsNarrow ==
    Allocated =>
        /\ Len(pots) >= 1
        /\ ~pots[1].is_sidepot
        /\ \A k \in 2..Len(pots) :
              /\ pots[k].is_sidepot
              /\ pots[k].players_eligible \subseteq pots[k - 1].players_eligible
              /\ pots[k].players_eligible # pots[k - 1].players_eligible

\* three side pots after the main pot, with a zero stack and a tie of stacks
SidePotsNarrowWitness ==
    /\ Allocated
    /\ Len(pots) = 4
    /\ \E i \in PlayerIds(num_players) : player_stacks[i] = 0
    /\ \E i, j \in PlayerIds(num_players) :
          i # j /\ player_stacks[i] = player_stacks[j] /\ player_stacks[i] > 0

\* C8: the main pot holds the money already in the pot plus the shortest
\* stack of all the players times the number of all the players, and every
\* player is eligible for it; a player whose stack is 0 makes the shortest
\* stack 0 and is eligible like the others.
MainPotOfAllPlayers ==
    Allocated =>
        /\ pots[1].amount = money_in_pot + ShortestStack * num_players
        /\ pots[1].players_eligible = PlayerIds(num_players)
        /\ ~pots[1].is_sidepot

\* a player with no chips next to players with chips, and money in the pot
MainPotOfAllPlayersWitness ==
    /\ Allocated
    /\ money_in_pot = 2
    /\ Funded # {}
    /\ Funded # PlayerIds(num_players)
    /\ pots[1].amount = 2

\* C8 as first stated: the main pot holds the money already in the pot plus
\* the shortest positive stack times the number of players with a positive
\* stack, and exactly those players are eligible for it.
MainPotOfFundedPlayers ==
    (Allocated /\ Funded # {}) =>
        /\ pots[1].amount = money_in_pot + ShortestFundedStack * Cardinality(Funded)
        /\ pots[1].players_eligible = Funded

Returned == pc = "returned"

\* The players whose stack is deeper than every other stack (one at most)
StrictlyDeepest ==
    {p \in PlayerIds(num_players) :
        \A q \in PlayerIds(num_players) \ {p} : player_stacks[q] < player_stacks[p]}

\* The deepest stack among the players other than p
DeepestBut(p) ==
    CHOOSE v \in {player_stacks[q] : q \in PlayerIds(num_players) \ {p}} :
        \A q \in PlayerIds(num_players) \ {p} : player_stacks[q] <= v

PotAmounts == SumSeq([k \in 1..Len(pots) |-> pots[k].amount])

WonByPlayer(p) == SumSeq([k \in 1..Len(pots) |-> pots[k].entitled_chips[p]])

\* C9: _allocate_pot returns at most one (player, leftover) pair; it returns
\* one exactly when a player holds the strictly deepest stack, for that
\* player, with the stack less the second deepest stack; the pots hold all
\* the chips but these; and calculate gives the player the leftover on top of
\* what the pots give them (stacks 1 and 3 with no pot money give one pot of
\* 2 eligible to both players and the leftover (1, 2)).
UncontestedChipsReturned ==
    Returned =>
        /\ Len(remaining_stacks) <= 1
        /\ (remaining_stacks = <<>>) = (StrictlyDeepest = {})
        /\ remaining_stacks = <<>> =>
              PotAmounts = money_in_pot + Sum(player_stacks)
        /\ remaining_stacks # <<>> =>
              LET p == remaining_stacks[1][1]
                  leftover == remaining_stacks[1][2]
              IN /\ p \in StrictlyDeepest
                 /\ leftover = player_stacks[p] - DeepestBut(p)
                 /\ leftover > 0
                 /\ PotAmounts = money_in_pot + Sum(player_stacks) - leftover
                 /\ resultant_stack[p] = leftover + WonByPlayer(p)
        /\ (num_players = 2 /\ money_in_pot = 0
              /\ player_stacks[0] = 1 /\ player_stacks[1] = 3) =>
              /\ Len(pots) = 1
              /\ pots[1].amount = 2
              /\ pots[1].players_eligible = {0, 1}
              /\ remaining_stacks = <<<<1, 2>>>>

\* the player with the leftover has the weakest hand in every run and wins
\* nothing from the pots
UncontestedChipsReturnedWitness ==
    /\ Returned
    /\ num_players = 3
    /\ num_runs = 2
    /\ Len(pots) = 2
    /\ remaining_stacks # <<>>
    /\ LET p == remaining_stacks[1][1]
       IN /\ WonByPlayer(p) = 0
          /\ PotAmounts > 0
          /\ resultant_stack[p] = remaining_stacks[1][2]

\* Run r of pot k has chips to give and no tier of its run result holds a
\* player eligible for the pot
NoEligibleWinner(k, r) ==
    /\ ChipsEachRun(pots[k].amount, num_runs)[r] > 0
    /\ \A t \in DOMAIN run_results[r] :
          SeqRange(run_results[r][t]) \cap pots[k].players_eligible = {}

\* C11: when some run of some pot has a positive share and no tier with an
\* eligible player, the settlement returns no final stacks, and whenever it
\* does return them no chip has been dropped.
AbortsWithoutEligibleWinner ==
    Returned =>
        /\ \A k \in 1..Len(pots) : \A r \in DOMAIN run_results :
              ~NoEligibleWinner(k, r)
        /\ Sum(resultant_stack) = money_in_pot + Sum(player_stacks)

\* C12: a call of calculate on a calculator that has already returned a
\* result returns the same final stacks as the call before it.
SameResultEveryCall ==
    [][(pc = "returned" /\ pc' = "returned") =>
           resultant_stack' = resultant_stack]_vars

====
